---- MODULE Spec2Model ----
(***************************************************************************)
(* A model of skills/news-daily/scripts/fetch_news.py: the Transport       *)
(* (fetch, wrapped by tenacity's @retry), the eight NewsSource variants    *)
(* and the aggregator fetch_all_news.                                      *)
(*                                                                         *)
(* Python values are tagged records [t |-> tag, v |-> payload]; a raised   *)
(* exception is the value [t |-> "raise", v |-> exception class].          *)
(***************************************************************************)
EXTENDS Integers, Sequences, FiniteSets, TLC

VARIABLES
    call,        \* the Transport call in progress (SpecTransport)
    exp_shift,   \* tenacity's exponent: 2 ** (attempt_number - exp_shift)
    config,      \* config["platforms"], in dict iteration order
    idx,         \* fetch_all_news: index of the next platform to visit
    all_items,   \* fetch_all_news: all_items
    visited,     \* fetch_all_news: what happened to each platform visited
    last,        \* a Source built and fetched on its own: input and outcome
    mode         \* what runs: "transport", "direct" or "aggregate"

vars == <<call, exp_shift, config, idx, all_items, visited, last, mode>>

----------------------------------------------------------------------------
(* Bounds of the model.                                                    *)

MaxPlatforms == 2
MaxRecords == 2

----------------------------------------------------------------------------
(* Python values.                                                          *)

JNull == [t |-> "null"]
JStr(s) == [t |-> "str", v |-> s]
JList(s) == [t |-> "list", v |-> s]
JObj(f) == [t |-> "obj", v |-> f]
EmptyObj == JObj(<<>>)
EmptyStr == JStr("")
Raise(e) == [t |-> "raise", v |-> e]
IsRaise(x) == x.t = "raise"

StartsWith(s, p) == Len(s) >= Len(p) /\ SubSeq(s, 1, Len(p)) = p
Contains(s, p) ==
    \E i \in 1..(Len(s) - Len(p) + 1) : SubSeq(s, i, i + Len(p) - 1) = p

\* bool(x): None, "", [] and {} are falsy.
Truthy(x) ==
    CASE x.t = "null" -> FALSE
      [] x.t = "str" -> x.v # ""
      [] x.t = "list" -> x.v # <<>>
      [] x.t = "obj" -> DOMAIN x.v # {}
      [] OTHER -> TRUE

\* key in x
PyIn(key, x) ==
    CASE x.t = "obj" -> key \in DOMAIN x.v
      [] x.t = "str" -> Contains(x.v, key)
      [] x.t = "list" -> \E i \in DOMAIN x.v : x.v[i] = JStr(key)
      [] OTHER -> FALSE

PyInRaises(x) == x.t = "null"

\* x[key]
PyIndex(x, key) ==
    CASE IsRaise(x) -> x
      [] x.t = "obj" -> IF key \in DOMAIN x.v THEN x.v[key] ELSE Raise("KeyError")
      [] OTHER -> Raise("TypeError")

\* x.get(key, default): only a dict has .get
PyGet(x, key, default) ==
    CASE IsRaise(x) -> x
      [] x.t = "obj" -> IF key \in DOMAIN x.v THEN x.v[key] ELSE default
      [] OTHER -> Raise("AttributeError")

\* The keys of a dict, as iterating it yields them.
RECURSIVE SeqOfSet(_)
SeqOfSet(S) ==
    IF S = {} THEN <<>>
    ELSE LET k == CHOOSE k \in S : TRUE IN <<k>> \o SeqOfSet(S \ {k})
KeysOf(f) == LET ks == SeqOfSet(DOMAIN f) IN [i \in 1..Len(ks) |-> JStr(ks[i])]

\* for item in x: the sequence iterated, or the TypeError of a non-iterable
PyIter(x) ==
    CASE IsRaise(x) -> x
      [] x.t = "list" -> x
      [] x.t = "str" -> JList([i \in 1..Len(x.v) |-> JStr(SubSeq(x.v, i, i))])
      [] x.t = "obj" -> JList(KeysOf(x.v))
      [] OTHER -> Raise("TypeError")

----------------------------------------------------------------------------
(* Transport: fetch(url, params) under                                     *)
(* @retry(stop=stop_after_attempt(3),                                      *)
(*        wait=wait_exponential(multiplier=1, min=2, max=10)).             *)

StopAfterAttempt == 3
WaitMultiplier == 1
WaitMin == 2
WaitMax == 10

RECURSIVE Pow(_, _)
Pow(b, n) == IF n <= 0 THEN 1 ELSE b * Pow(b, n - 1)

Min2(a, b) == IF a <= b THEN a ELSE b
Max2(a, b) == IF a >= b THEN a ELSE b

\* The floor min=2 left out.
wait_exponential_nofloor(n, shift) ==
    Min2(WaitMultiplier * Pow(2, n - shift), WaitMax)

\* tenacity.wait_exponential.__call__ after failed attempt number n:
\* max(max(0, min), min(multiplier * exp_base ** (n - shift), max)), with
\* exp_base left at 2.  shift is 1 in current tenacity releases and 0 in the
\* early ones.
wait_exponential(n, shift) ==
    Max2(Max2(0, WaitMin), Min2(WaitMultiplier * Pow(2, n - shift), WaitMax))

\* One HTTP GET as the network answers it: a fault raised by requests.get, or
\* a response with a status and a body.
Fault(cause) == [kind |-> "fault", cause |-> cause, status |-> 0, body |-> JNull]
Response(status, body) ==
    [kind |-> "http", cause |-> "", status |-> status, body |-> body]

\* response.raise_for_status(): HTTPError for 4xx and 5xx.
RaiseForStatus(out) == out.status >= 400 /\ out.status < 600

StatusText(status) ==
    CASE status = 404 -> "404 Client Error"
      [] status = 500 -> "500 Server Error"
      [] OTHER -> "HTTP Error"

\* The except clause returning None in place of raising.
FetchOnce_swallow(url, out) ==
    IF out.kind = "fault" \/ RaiseForStatus(out)
    THEN [ok |-> TRUE, value |-> JNull, msg |-> ""]
    ELSE [ok |-> TRUE, value |-> out.body, msg |-> ""]

\* The body of fetch: the value returned, or the Exception raised with the
\* message "Failed to fetch {url}: {cause}".
FetchOnce(url, out) ==
    IF out.kind = "fault"
    THEN [ok |-> FALSE, value |-> JNull,
          msg |-> "Failed to fetch " \o url \o ": " \o out.cause]
    ELSE IF RaiseForStatus(out)
    THEN [ok |-> FALSE, value |-> JNull,
          msg |-> "Failed to fetch " \o url \o ": " \o StatusText(out.status)]
    ELSE [ok |-> TRUE, value |-> out.body, msg |-> ""]

\* No Source has been built yet.
NoRun == [phase |-> "none"]

\* tenacity's RetryError: it holds the last attempt, whose exception is the
\* Exception fetch raised (last_attempt is that exception's message).
RetryError(msg) == [exc |-> "RetryError", last_attempt |-> msg]

\* A call that has not started.
IdleCall ==
    [status |-> "idle", url |-> "", attempt |-> 0, hist |-> <<>>,
     sleeps |-> <<>>, value |-> JNull, error |-> [exc |-> "", last_attempt |-> ""]]

StartCall(url) == [IdleCall EXCEPT !.status = "attempting", !.url = url, !.attempt = 1]

\* The stop condition tested with > in place of >=.
AfterAttempt_late_stop(c, out, shift) ==
    LET r == FetchOnce(c.url, out)
        h == Append(c.hist, out)
    IN  IF r.ok
        THEN [c EXCEPT !.status = "returned", !.hist = h, !.value = r.value]
        ELSE IF c.attempt > StopAfterAttempt
        THEN [c EXCEPT !.status = "raised", !.hist = h, !.error = RetryError(r.msg)]
        ELSE [c EXCEPT !.status = "waiting", !.hist = h,
                       !.sleeps = Append(c.sleeps, wait_exponential(c.attempt, shift))]

\* tenacity's Retrying loop after attempt c.attempt was answered by out:
\* return the value; or raise RetryError, which wraps the exception of the
\* last attempt, once stop_after_attempt(3) says stop; or sleep
\* wait_exponential seconds.
AfterAttempt(c, out, shift) ==
    LET r == FetchOnce(c.url, out)
        h == Append(c.hist, out)
    IN  IF r.ok
        THEN [c EXCEPT !.status = "returned", !.hist = h, !.value = r.value]
        ELSE IF c.attempt >= StopAfterAttempt
        THEN [c EXCEPT !.status = "raised", !.hist = h, !.error = RetryError(r.msg)]
        ELSE [c EXCEPT !.status = "waiting", !.hist = h,
                       !.sleeps = Append(c.sleeps, wait_exponential(c.attempt, shift))]

\* The sleep is over: the next attempt begins.
NextAttempt(c) == [c EXCEPT !.status = "attempting", !.attempt = c.attempt + 1]

\* A whole call against the answers outs (one per attempt, in order).
RECURSIVE RunCall(_, _, _)
RunCall(c, outs, shift) ==
    IF c.status = "waiting" THEN RunCall(NextAttempt(c), outs, shift)
    ELSE IF c.status = "attempting" /\ c.attempt <= Len(outs)
    THEN RunCall(AfterAttempt(c, outs[c.attempt], shift), outs, shift)
    ELSE c

\* fetch(url, params) as its caller sees it: the value, or the RetryError.
fetch(url, outs, shift) ==
    LET c == RunCall(StartCall(url), outs, shift)
    IN  [value |-> IF c.status = "returned" THEN c.value ELSE Raise("RetryError"),
         gets |-> Len(c.hist)]

----------------------------------------------------------------------------
(* Text Sanitizer: strip_html.                                             *)

Chr(s, i) == SubSeq(s, i, i)
IsSpace(c) == c = " " \/ c = "\n" \/ c = "\t"

\* The text outside the tags, each tag giving way to a separator.
RECURSIVE DropTags(_, _, _)
DropTags(s, i, inTag) ==
    IF i > Len(s) THEN ""
    ELSE IF Chr(s, i) = "<" THEN " " \o DropTags(s, i + 1, TRUE)
    ELSE IF Chr(s, i) = ">" /\ inTag THEN DropTags(s, i + 1, FALSE)
    ELSE IF inTag THEN DropTags(s, i + 1, TRUE)
    ELSE Chr(s, i) \o DropTags(s, i + 1, FALSE)

\* re.sub(r'\s+', ' ', text).strip()
RECURSIVE Collapse(_, _, _)
Collapse(s, i, pendingSpace) ==
    IF i > Len(s) THEN ""
    ELSE IF IsSpace(Chr(s, i)) THEN Collapse(s, i + 1, TRUE)
    ELSE (IF pendingSpace THEN " " ELSE "") \o Chr(s, i) \o Collapse(s, i + 1, FALSE)

LStrip(s) == IF Len(s) > 0 /\ Chr(s, 1) = " " THEN SubSeq(s, 2, Len(s)) ELSE s

strip_html(text) ==
    IF text = "" THEN "" ELSE LStrip(Collapse(DropTags(text, 1, FALSE), 1, FALSE))

----------------------------------------------------------------------------
(* NewsSource and its eight variants.                                      *)

SOURCE_MAP ==
    {"zhihu", "wallstreetcn", "hupu", "thepaper", "hackernews", "producthunt",
     "github", "sspai"}

\* The platform id each variant passes to NewsSource.__init__ is its key.
ApiSources == {"zhihu", "wallstreetcn", "thepaper", "sspai"}
HtmlSources == {"hupu", "hackernews", "producthunt", "github"}

JBool(b) == [t |-> "bool", v |-> b]

\* bool(x) of a configuration value.
CfgTruthy(x) == IF x.t = "bool" THEN x.v ELSE Truthy(x)

\* NewsSource.__init__ and the variant's __init__: the Source, or the KeyError
\* of a missing configuration key.  config["endpoints"] is an ordered dict,
\* kept as the sequence of its (key, value) pairs.
Construct(id, cfg) ==
    LET need == {"name", "icon", "type", "category"}
                  \cup (IF id = "wallstreetcn" THEN {"endpoints"} ELSE {"url"})
    IN  IF ~(need \subseteq DOMAIN cfg)
        THEN Raise("KeyError")
        ELSE [t |-> "source",
              platform |-> id,
              icon |-> cfg.icon,
              type |-> cfg.type,
              category |-> cfg.category,
              enabled |-> IF "enabled" \in DOMAIN cfg THEN cfg.enabled ELSE JBool(TRUE),
              url |-> IF "url" \in DOMAIN cfg THEN cfg.url ELSE JNull,
              endpoints |-> IF "endpoints" \in DOMAIN cfg THEN cfg.endpoints ELSE <<>>]

NewsItem(src, title, url, content) ==
    [title |-> title, url |-> url, platform |-> src.platform,
     platform_icon |-> src.icon, raw_category |-> src.category,
     content |-> content]

Skip == [k |-> "skip", item |-> JNull]
Emit(item) == [k |-> "item", item |-> item]
Abort(e) == [k |-> "raise", item |-> e]

\* ZhihuSource._fetch_api, the body of its loop.
ZhihuRecord(src, item) ==
    LET target == PyGet(item, "target", EmptyObj)
        title == PyGet(PyGet(target, "title_area", EmptyObj), "text", EmptyStr)
        url == PyGet(target, "url", EmptyStr)
        content == PyGet(PyGet(target, "excerpt_area", EmptyObj), "text", EmptyStr)
    IN  IF IsRaise(title) THEN Abort(title)
        ELSE IF ~Truthy(title) THEN Skip
        ELSE IF IsRaise(content) THEN Abort(content)
        ELSE Emit(NewsItem(src, title, url, content))

\* ThePaperSource._fetch_api, the body of its loop.
ThePaperRecord(src, item) ==
    LET title == PyGet(item, "name", EmptyStr)
        cont_id == PyGet(item, "contId", EmptyStr)
    IN  IF IsRaise(title) THEN Abort(title)
        ELSE IF ~Truthy(title) THEN Skip
        ELSE Emit(NewsItem(src, title,
                 IF Truthy(cont_id)
                 THEN JStr("https://www.thepaper.cn/newsDetail_forward_" \o cont_id.v)
                 ELSE EmptyStr,
                 EmptyStr))

\* SspaiSource._fetch_api, the body of its loop.
SspaiRecord(src, item) ==
    LET title == PyGet(item, "title", EmptyStr)
    IN  IF IsRaise(title) THEN Abort(title)
        ELSE IF ~Truthy(title) THEN Skip
        ELSE Emit(NewsItem(src, title, PyGet(item, "id", EmptyStr),
                           PyGet(item, "summary", EmptyStr)))

\* WallStreetCNSource._parse_endpoint, the body of the "live" loop.
LiveRecord(src, item) ==
    LET content == PyGet(item, "content", EmptyStr)
    IN  IF IsRaise(content) THEN Abort(content)
        ELSE IF ~Truthy(content) THEN Skip
        ELSE IF content.t # "str" THEN Abort(Raise("TypeError"))
        ELSE IF strip_html(content.v) = "" THEN Skip
        ELSE Emit(NewsItem(src, JStr(strip_html(content.v)), EmptyStr, EmptyStr))

\* WallStreetCNSource._parse_endpoint, the body of the "news" and "hot" loops.
ArticleRecord(src, item) ==
    LET article == PyGet(item, "article", JNull)
        title == PyGet(article, "title", EmptyStr)
    IN  IF IsRaise(article) THEN Abort(article)
        ELSE IF ~Truthy(article) THEN Skip
        ELSE IF IsRaise(title) THEN Abort(title)
        ELSE IF ~Truthy(title) THEN Skip
        ELSE Emit(NewsItem(src, title, PyGet(article, "uri", EmptyStr), EmptyStr))

\* An HTML node as BeautifulSoup's selectors see it: whether the title
\* element is there, its get_text(strip=True), and the href of its link
\* (JNull when the attribute is absent).
HrefOf(node) == IF node.href.t = "null" THEN "" ELSE node.href.v

\* HupuSource._fetch_html, the body of its loop.
HupuRecord(src, node) ==
    IF ~node.a THEN Skip
    ELSE IF node.text = "" THEN Skip
    ELSE LET url == HrefOf(node)
         IN  Emit(NewsItem(src, JStr(node.text),
                  JStr(IF url # "" /\ ~StartsWith(url, "http")
                       THEN "https://bbs.hupu.com" \o url ELSE url),
                  EmptyStr))

\* HackerNewsSource._fetch_html, the body of its loop.
HackerNewsRecord(src, node) ==
    IF ~node.a THEN Skip
    ELSE IF node.text = "" THEN Skip
    ELSE Emit(NewsItem(src, JStr(node.text), JStr(HrefOf(node)), EmptyStr))

\* ProductHuntSource._fetch_html, the body of its loop: the link is the
\* node's anchor only if a[href^='/posts/'] selects it.
ProductHuntRecord(src, node) ==
    IF ~node.a THEN Skip
    ELSE IF node.text = "" THEN Skip
    ELSE LET linked == node.href.t = "str" /\ StartsWith(node.href.v, "/posts/")
         IN  Emit(NewsItem(src, JStr(node.text),
                  JStr(IF linked THEN "https://www.producthunt.com" \o node.href.v
                       ELSE ""),
                  EmptyStr))

\* GitHubSource._fetch_html, the body of its loop.
GitHubRecord(src, node) ==
    IF ~node.a THEN Skip
    ELSE IF node.text = "" THEN Skip
    ELSE LET url == HrefOf(node)
         IN  Emit(NewsItem(src, JStr(node.text),
                  JStr(IF url # "" /\ ~StartsWith(url, "http")
                       THEN "https://github.com" \o url ELSE url),
                  EmptyStr))

\* The loop body of parser p ("live", "news" and "hot" are the endpoints of
\* wallstreetcn; the others are platform ids).
Record(p, src, item) ==
    CASE p = "zhihu" -> ZhihuRecord(src, item)
      [] p = "thepaper" -> ThePaperRecord(src, item)
      [] p = "sspai" -> SspaiRecord(src, item)
      [] p = "live" -> LiveRecord(src, item)
      [] p \in {"news", "hot"} -> ArticleRecord(src, item)
      [] p = "hupu" -> HupuRecord(src, item)
      [] p = "hackernews" -> HackerNewsRecord(src, item)
      [] p = "producthunt" -> ProductHuntRecord(src, item)
      [] p = "github" -> GitHubRecord(src, item)

\* for item in recs: ... items.append(...): the list built, or the exception
\* that left the loop.
RECURSIVE Loop(_, _, _, _, _)
Loop(p, src, recs, i, items) ==
    IF i > Len(recs) THEN JList(items)
    ELSE LET r == Record(p, src, recs[i])
         IN  IF r.k = "raise" THEN r.item
             ELSE Loop(p, src, recs, i + 1,
                       IF r.k = "item" THEN Append(items, r.item) ELSE items)

\* for item in x, x any Python value.
LoopOver(p, src, x) ==
    LET it == PyIter(x)
    IN  IF IsRaise(it) THEN it ELSE Loop(p, src, it.v, 1, <<>>)

\* The _fetch_api bodies after data = fetch(...), for zhihu, thepaper, sspai.
ParseApi(p, src, data) ==
    IF PyInRaises(data) THEN Raise("TypeError")
    ELSE IF ~PyIn("data", data) THEN JList(<<>>)
    ELSE IF p = "thepaper"
    THEN LoopOver(p, src, PyIndex(PyIndex(data, "data"), "hotNews"))
    ELSE LoopOver(p, src, PyIndex(data, "data"))

\* WallStreetCNSource._parse_endpoint.
_parse_endpoint(src, endpoint_key, data) ==
    IF PyInRaises(data) THEN Raise("TypeError")
    ELSE IF ~PyIn("data", data) THEN JList(<<>>)
    ELSE LET d == PyIndex(data, "data")
         IN  IF IsRaise(d) THEN d
             ELSE IF PyInRaises(d) THEN Raise("TypeError")
             ELSE IF ~PyIn("items", d) THEN JList(<<>>)
             ELSE IF endpoint_key \in {"live", "news", "hot"}
             THEN LoopOver(endpoint_key, src, PyIndex(d, "items"))
             ELSE JList(<<>>)

\* The _fetch_html bodies after html = fetch(...): BeautifulSoup selects the
\* nodes of an HTML text; any other text has none.
ParseHtml(p, src, html) ==
    IF html.t = "html" THEN Loop(p, src, html.v, 1, <<>>)
    ELSE IF html.t = "str" THEN JList(<<>>)
    ELSE Raise("TypeError")

\* data = fetch(url, params); self._parse_endpoint(endpoint_key, data)
EndpointParsed(src, key, r) ==
    IF IsRaise(r.value) THEN r.value ELSE _parse_endpoint(src, key, r.value)

\* items after the endpoint: extended when nothing was raised.
EndpointItems(items, parsed) == IF IsRaise(parsed) THEN items ELSE items \o parsed.v

RECURSIVE WallStreetLoop(_, _, _, _, _, _)

\* The try block around the whole loop: the first exception ends it.
WallStreetStep_try_outside(src, i, env, shift, items, gets, r) ==
    IF IsRaise(EndpointParsed(src, src.endpoints[i].key, r))
    THEN [value |-> JList(items), gets |-> gets + r.gets]
    ELSE WallStreetLoop(src, i + 1, env, shift,
             EndpointItems(items, EndpointParsed(src, src.endpoints[i].key, r)),
             gets + r.gets)

\* The body of the loop of WallStreetCNSource._fetch_api once fetch has
\* answered r: an exception of fetch or of _parse_endpoint is caught and the
\* loop goes on.
WallStreetStep(src, i, env, shift, items, gets, r) ==
    WallStreetLoop(src, i + 1, env, shift,
        EndpointItems(items, EndpointParsed(src, src.endpoints[i].key, r)),
        gets + r.gets)

\* WallStreetCNSource._fetch_api: one Transport call per endpoint, in the
\* order of config["endpoints"]; env[i] answers the i-th call.  The KeyError
\* of an endpoint without url is outside the try block.
WallStreetLoop(src, i, env, shift, items, gets) ==
    IF i > Len(src.endpoints) THEN [value |-> JList(items), gets |-> gets]
    ELSE IF "url" \notin DOMAIN src.endpoints[i].cfg
    THEN [value |-> Raise("KeyError"), gets |-> gets]
    ELSE WallStreetStep(src, i, env, shift, items, gets,
                        fetch(src.endpoints[i].cfg.url.v, env[i], shift))

\* The value of a single-call source once fetch has answered r.
Parsed(src, r) ==
    [value |-> IF IsRaise(r.value) THEN r.value
               ELSE IF src.platform \in ApiSources
               THEN ParseApi(src.platform, src, r.value)
               ELSE ParseHtml(src.platform, src, r.value),
     gets |-> r.gets]

\* The variant's _fetch_api (the base class's returns None).
_fetch_api(src, env, shift) ==
    IF src.platform = "wallstreetcn" THEN WallStreetLoop(src, 1, env, shift, <<>>, 0)
    ELSE IF src.platform \in ApiSources
    THEN Parsed(src, fetch(src.url.v, env[1], shift))
    ELSE [value |-> JNull, gets |-> 0]

\* The variant's _fetch_html (the base class's returns None).
_fetch_html(src, env, shift) ==
    IF src.platform \in HtmlSources
    THEN Parsed(src, fetch(src.url.v, env[1], shift))
    ELSE [value |-> JNull, gets |-> 0]

\* The enabled test left out.
SourceFetch_ignores_enabled(src, env, shift) ==
    IF src.type = JStr("api") THEN _fetch_api(src, env, shift)
    ELSE IF src.type = JStr("html") THEN _fetch_html(src, env, shift)
    ELSE [value |-> JList(<<>>), gets |-> 0]

\* NewsSource.fetch: the value returned or the exception raised, and the
\* number of HTTP GETs made.
SourceFetch(src, env, shift) ==
    IF ~CfgTruthy(src.enabled) THEN [value |-> JList(<<>>), gets |-> 0]
    ELSE IF src.type = JStr("api") THEN _fetch_api(src, env, shift)
    ELSE IF src.type = JStr("html") THEN _fetch_html(src, env, shift)
    ELSE [value |-> JList(<<>>), gets |-> 0]

\* The number of Transport calls a fetch() of src makes when none is cut short.
CallsOf(src) ==
    IF src.platform = "wallstreetcn" THEN Len(src.endpoints) ELSE 1

----------------------------------------------------------------------------
(* The Transport alone, one attempt at a time.                             *)

TUrls == {"http://a/hot", "http://b/api"}

TOutcomes ==
    {Fault("timed out"), Fault("connection reset"),
     Response(500, JStr("oops")), Response(404, JStr("gone")),
     Response(304, EmptyStr),
     Response(200, JObj([data |-> JList(<<>>)])), Response(200, JStr("<html>"))}

TCall ==
    /\ call.status = "idle"
    /\ \E url \in TUrls : call' = StartCall(url)
    /\ UNCHANGED <<exp_shift, config, idx, all_items, visited, last, mode>>

TAttempt ==
    /\ call.status = "attempting"
    /\ \E out \in TOutcomes : call' = AfterAttempt(call, out, exp_shift)
    /\ UNCHANGED <<exp_shift, config, idx, all_items, visited, last, mode>>

TSleep ==
    /\ call.status = "waiting"
    /\ call' = NextAttempt(call)
    /\ UNCHANGED <<exp_shift, config, idx, all_items, visited, last, mode>>

TInit ==
    /\ call = IdleCall
    /\ exp_shift \in {0, 1}
    /\ config = <<>>
    /\ idx = 0
    /\ all_items = <<>>
    /\ visited = <<>>
    /\ last = NoRun
    /\ mode = "transport"

TNext == TCall \/ TAttempt \/ TSleep

SpecTransport == TInit /\ [][TNext]_vars

----------------------------------------------------------------------------
(* The inputs: configurations and what the network answers.                *)

Endpoint(key) == [key |-> key, cfg |-> [url |-> JStr("https://api.wscn/" \o key)]]

GoodCfg(id) ==
    LET base == [name |-> JStr(id), icon |-> JStr("*"), category |-> JStr("tech"),
                 type |-> JStr(IF id \in HtmlSources THEN "html" ELSE "api")]
    IN  IF id = "wallstreetcn"
        THEN ("endpoints" :> <<Endpoint("live"), Endpoint("news"), Endpoint("hot")>>) @@ base
        ELSE ("url" :> JStr("https://" \o id \o ".example/hot")) @@ base

Without(f, keys) == [k \in DOMAIN f \ keys |-> f[k]]

\* The configurations of platform id that are tried: complete, disabled,
\* one required key missing, the type of the other kind, an unknown type;
\* for wallstreetcn also two endpoints in another order.
CfgVariants(id) ==
    LET g == GoodCfg(id)
    IN  {g,
         ("enabled" :> JBool(FALSE)) @@ g,
         ("enabled" :> JBool(TRUE)) @@ Without(g, {"url", "endpoints"}),
         [g EXCEPT !.type = JStr(IF id \in HtmlSources THEN "api" ELSE "html")],
         [g EXCEPT !.type = JStr("rss")]}
        \cup (IF id = "wallstreetcn"
              THEN {[g EXCEPT !.endpoints = <<Endpoint("hot"), Endpoint("live")>>]}
              ELSE {})

Entries(ids) == UNION {{[id |-> id, cfg |-> c] : c \in CfgVariants(id)} : id \in ids}

\* config["platforms"]: n platforms, in dict order.
RECURSIVE ConfigsOfLen(_, _)
ConfigsOfLen(n, ids) ==
    IF n = 0 THEN {<<>>}
    ELSE {Append(c, e) : c \in ConfigsOfLen(n - 1, ids), e \in Entries(ids)}

\* The keys of a dict are distinct.
DistinctIds(c) == \A i, j \in DOMAIN c : i # j => c[i].id # c[j].id

Configs(n, ids) ==
    {c \in UNION {ConfigsOfLen(k, ids) : k \in 1..n} : DistinctIds(c)}

\* The platforms fetch_all_news is run on: one of each kind, the
\* multi-endpoint one, and one that SOURCE_MAP does not know.
AggIds == {"zhihu", "hackernews", "wallstreetcn", "weibo"}

Node(a, text, href) == [a |-> a, text |-> text, href |-> href]

\* The records tried for parser p: two that yield an Item, one without a
\* title, then the other shapes.
Shapes(p) ==
    CASE p = "zhihu" ->
            <<JObj([target |-> JObj([title_area |-> JObj([text |-> JStr("Example")]),
                                     url |-> JStr("http://x"),
                                     excerpt_area |-> JObj([text |-> JStr("Body")])])]),
              JObj([target |-> JObj([title_area |-> JObj([text |-> JStr("B")])])]),
              EmptyObj,
              JObj([target |-> JNull]),
              JStr("x")>>
      [] p = "thepaper" ->
            <<JObj([name |-> JStr("A"), contId |-> JStr("123")]),
              JObj([name |-> JStr("B")]),
              JObj([name |-> EmptyStr, contId |-> JStr("9")]),
              JNull>>
      [] p = "sspai" ->
            <<JObj([title |-> JStr("A"), id |-> JStr("42"), summary |-> JStr("S")]),
              JObj([title |-> JStr("B")]),
              JObj([id |-> JStr("7")]),
              JStr("x")>>
      [] p = "live" ->
            <<JObj([content |-> JStr("<p>Hi <b>all</b></p>")]),
              JObj([content |-> JStr("B")]),
              JObj([content |-> JStr("<p> </p>")]),
              JNull>>
      [] p \in {"news", "hot"} ->
            <<JObj([article |-> JObj([title |-> JStr("A"), uri |-> JStr("u1")])]),
              JObj([article |-> JObj([title |-> JStr("B")])]),
              JObj([article |-> JNull]),
              JObj([article |-> JStr("x")])>>
      [] OTHER ->
            <<Node(TRUE, "Post A", JStr("/posts/a")),
              Node(TRUE, "B", JStr("https://x.org/b")),
              Node(TRUE, "", JStr("/posts/c")),
              Node(TRUE, "D", JStr("item?id=1")),
              Node(TRUE, "E", JNull),
              Node(FALSE, "", JNull)>>

\* The response body that carries the records recs to parser p.
Body(p, recs) ==
    CASE p \in {"zhihu", "sspai"} -> JObj([data |-> JList(recs)])
      [] p = "thepaper" -> JObj([data |-> JObj([hotNews |-> JList(recs)])])
      [] p \in {"live", "news", "hot"} -> JObj([data |-> JObj([items |-> JList(recs)])])
      [] OTHER -> [t |-> "html", v |-> recs]

RECURSIVE SeqsUpTo(_, _)
SeqsUpTo(S, n) ==
    IF n = 0 THEN {<<>>}
    ELSE SeqsUpTo(S, n - 1)
           \cup {Append(q, x) : q \in {r \in SeqsUpTo(S, n - 1) : Len(r) = n - 1}, x \in S}

Range(q) == {q[i] : i \in DOMAIN q}

\* Every body for parser p with up to MaxRecords records, and some without.
AllBodies(p) ==
    {Body(p, recs) : recs \in SeqsUpTo(Range(Shapes(p)), MaxRecords)}
      \cup (IF p \in HtmlSources THEN {JStr("plain text")}
            ELSE {JObj([code |-> JStr("1")]), JStr("no data"), JStr("busy")})

\* What the network answers to the attempts of one Transport call: a few
\* answers; and all of them, with every body at the first attempt and one
\* at the third.
Exhausted == <<Fault("timed out"), Response(500, JStr("oops")), Fault("connection reset")>>

FewAnswers(p) ==
    {<<Response(200, Body(p, <<Shapes(p)[1], Shapes(p)[2]>>))>>,
     <<Response(200, Body(p, <<Shapes(p)[4], Shapes(p)[2]>>))>>,
     Exhausted}

AllAnswers(p) ==
    FewAnswers(p)
      \cup {<<Fault("timed out"), Response(500, JStr("oops")),
              Response(200, Body(p, <<Shapes(p)[3], Shapes(p)[1]>>))>>}
      \cup {<<Response(200, b)>> : b \in AllBodies(p)}

\* The parser that reads the answer to the i-th Transport call of src.
ParserOf(src, i) ==
    IF src.platform = "wallstreetcn" THEN src.endpoints[i].key ELSE src.platform

\* The answers to the Transport calls of one fetch() of src: a few per call
\* and, when rich, every body at one call.
Envs(src, rich) ==
    LET n == CallsOf(src)
        few == {f \in [1..n -> UNION {FewAnswers(ParserOf(src, i)) : i \in 1..n}] :
                  \A i \in 1..n : f[i] \in FewAnswers(ParserOf(src, i))}
    IN  IF rich
        THEN UNION {{[f EXCEPT ![j] = a] : f \in few, a \in AllAnswers(ParserOf(src, j))} :
                      j \in 1..n}
        ELSE few

----------------------------------------------------------------------------
(* A Source built and fetched on its own, and fetch_all_news.              *)

\* source = source_class(platform_config)
DirectConstruct ==
    /\ mode = "direct"
    /\ last.phase = "none"
    /\ config[1].id \in SOURCE_MAP
    /\ LET src == Construct(config[1].id, config[1].cfg)
       IN  last' = IF IsRaise(src) THEN [phase |-> "failed", error |-> src]
                   ELSE [phase |-> "constructed", src |-> src]
    /\ UNCHANGED <<call, exp_shift, config, idx, all_items, visited, mode>>

Fetched(src, env, r) ==
    [phase |-> "fetched", src |-> src, env |-> env, value |-> r.value, gets |-> r.gets]

\* source.fetch()
DirectFetch ==
    /\ mode = "direct"
    /\ last.phase = "constructed"
    /\ \E env \in Envs(last.src, TRUE) :
          last' = Fetched(last.src, env, SourceFetch(last.src, env, exp_shift))
    /\ UNCHANGED <<call, exp_shift, config, idx, all_items, visited, mode>>

Visit(id, status, value, gets, env) ==
    [id |-> id, status |-> status, value |-> value, gets |-> gets, env |-> env]

\* items = source.fetch(); print(... len(items) ...): the TypeError of
\* len(None) is caught like any other exception.
TryFetched(id, r, env) ==
    IF IsRaise(r.value) THEN Visit(id, "error", r.value, r.gets, env)
    ELSE IF r.value.t # "list" THEN Visit(id, "error", Raise("TypeError"), r.gets, env)
    ELSE Visit(id, "ok", r.value, r.gets, env)

TryBuilt(id, src, env, shift) ==
    IF IsRaise(src) THEN Visit(id, "error", src, 0, <<>>)
    ELSE TryFetched(id, SourceFetch(src, env, shift), env)

\* The try block of fetch_all_news for one platform: build the Source, fetch,
\* len(items) for the log line; any exception is caught.
TryPlatform(id, cfg, env, shift) == TryBuilt(id, Construct(id, cfg), env, shift)

\* The body of the loop of fetch_all_news for one platform.
VisitPlatform(id, cfg, env, shift) ==
    IF ~CfgTruthy(PyGet(JObj(cfg), "enabled", JBool(TRUE)))
    THEN Visit(id, "disabled", JList(<<>>), 0, <<>>)
    ELSE IF id \notin SOURCE_MAP
    THEN Visit(id, "unknown", JList(<<>>), 0, <<>>)
    ELSE TryPlatform(id, cfg, env, shift)

\* The answers to draw for a platform: those of its Source when it can be
\* built, none otherwise.
PlatformEnvs(id, cfg) ==
    LET src == Construct(id, cfg)
    IN  IF id \notin SOURCE_MAP \/ IsRaise(src) \/ ~CfgTruthy(src.enabled)
             \/ src.type \notin {JStr("api"), JStr("html")}
             \/ (src.type = JStr("api")) # (id \in ApiSources)
        THEN {<<>>}
        ELSE Envs(src, FALSE)

\* all_items after the visit v, with extend() putting the new items first.
Extend_prepends(items, v) == IF v.status = "ok" THEN v.value.v \o items ELSE items

\* all_items after the visit v: all_items.extend(items) when fetch returned.
Extend(items, v) == IF v.status = "ok" THEN items \o v.value.v ELSE items

\* One platform of the loop handled without the try block: what the step
\* leaves in idx when an exception escapes (the loop is over).
AfterVisit_no_try(i, n, v) == IF v.status = "error" THEN n + 1 ELSE i + 1

\* The index the loop goes on with after the visit v of platform i of n.
AfterVisit(i, n, v) == i + 1

\* The loop variables after the visit v.
AfterPlatform(v) ==
    /\ visited' = Append(visited, v)
    /\ all_items' = Extend(all_items, v)
    /\ idx' = AfterVisit(idx, Len(config), v)

\* One iteration of "for platform_id, platform_config in
\* config['platforms'].items()".
AggStep ==
    /\ mode = "aggregate"
    /\ idx <= Len(config)
    /\ \E env \in PlatformEnvs(config[idx].id, config[idx].cfg) :
          AfterPlatform(VisitPlatform(config[idx].id, config[idx].cfg, env, exp_shift))
    /\ UNCHANGED <<call, exp_shift, config, last, mode>>

\* fetch_all_news has returned all_items.
Returned == mode = "aggregate" /\ idx > Len(config)

Init ==
    /\ call = IdleCall
    /\ exp_shift = 1
    /\ mode \in {"direct", "aggregate"}
    /\ config \in IF mode = "direct" THEN Configs(1, SOURCE_MAP)
                  ELSE Configs(MaxPlatforms, AggIds)
    /\ idx = 1
    /\ all_items = <<>>
    /\ visited = <<>>
    /\ last = NoRun

Next == DirectConstruct \/ DirectFetch \/ AggStep

Spec == Init /\ [][Next]_vars

----------------------------------------------------------------------------
(* Properties of the Transport (of SpecTransport).                         *)

\* An attempt that failed in the sense of the specification: a network fault
\* or a status outside 2xx.
AttemptFailed(out) == out.kind = "fault" \/ out.status < 200 \/ out.status >= 300
AttemptSucceeded(out) == ~AttemptFailed(out)

\* C3: one call performs at most 3 GET attempts; an attempt follows only a
\* failed attempt; the call fails only after 3 attempts; and once an attempt
\* succeeds the call has returned that attempt's body.
C3_AtMostThreeAttempts ==
    /\ call.attempt <= 3
    /\ Len(call.hist) <= 3
    /\ \A k \in 1..(Len(call.hist) - 1) : AttemptFailed(call.hist[k])
    /\ \A k \in 1..(call.attempt - 1) :
           k <= Len(call.hist) /\ AttemptFailed(call.hist[k])
    /\ call.status = "raised" => Len(call.hist) = 3
    /\ \A k \in 1..Len(call.hist) :
           AttemptSucceeded(call.hist[k]) =>
               /\ k = Len(call.hist)
               /\ call.status = "returned"
               /\ call.value = call.hist[k].body

\* Attempts 1 and 2 failed, attempt 3 succeeded, and the call returned.
C3_Witness ==
    /\ Len(call.hist) = 3
    /\ AttemptFailed(call.hist[1])
    /\ AttemptFailed(call.hist[2])
    /\ AttemptSucceeded(call.hist[3])
    /\ call.status = "returned"

\* The cause of a failed attempt, as str(e) gives it.
CauseOf(out) == IF out.kind = "fault" THEN out.cause ELSE StatusText(out.status)

\* An attempt that raised inside fetch: a fault of requests.get, or the
\* HTTPError of raise_for_status.
AttemptRaised(out) == out.kind = "fault" \/ RaiseForStatus(out)

SleepsOnlyBetweenAttempts ==
    Len(call.sleeps) =
        IF call.status \in {"returned", "raised"} THEN Len(call.hist) - 1
        ELSE IF call.status = "waiting" THEN Len(call.hist)
        ELSE call.attempt - (IF call.status = "idle" THEN 0 ELSE 1)

SleepsInEnvelope ==
    \A k \in 1..Len(call.sleeps) : call.sleeps[k] >= 2 /\ call.sleeps[k] <= 10

\* C10 as stated: the delay starts at 2 seconds and doubles with each
\* further attempt, within 2..10 seconds.
C10_DelayDoubles ==
    /\ SleepsInEnvelope
    /\ SleepsOnlyBetweenAttempts
    /\ Len(call.sleeps) >= 1 => call.sleeps[1] = 2
    /\ \A k \in 1..(Len(call.sleeps) - 1) :
           call.sleeps[k + 1] = Min2(2 * call.sleeps[k], 10)

\* C10 amended: the delay is 2 seconds after the first failed attempt, and
\* after the second it is 2 or 4 seconds (never less than the one before),
\* within 2..10 seconds; nothing is waited after a success or after the
\* third failed attempt.
C10_DelayEnvelope ==
    /\ SleepsInEnvelope
    /\ SleepsOnlyBetweenAttempts
    /\ Len(call.sleeps) <= 2
    /\ Len(call.sleeps) >= 1 => call.sleeps[1] = 2
    /\ \A k \in 1..(Len(call.sleeps) - 1) :
           call.sleeps[k + 1] \in {call.sleeps[k], 2 * call.sleeps[k]}

\* Two failed attempts were each followed by a sleep, and the third failed.
C10_Witness ==
    /\ Len(call.sleeps) = 2
    /\ call.status = "raised"

----------------------------------------------------------------------------
(* Properties of fetch_all_news (of Spec).                                 *)

IsEnabled(cfg) == "enabled" \notin DOMAIN cfg \/ cfg.enabled = JBool(TRUE)
IsDisabled(cfg) == "enabled" \in DOMAIN cfg /\ cfg.enabled = JBool(FALSE)

\* A platform whose Source can be built and whose type is the kind its
\* variant implements: fetch() reaches the network.
Fetchable(e) ==
    /\ e.id \in SOURCE_MAP
    /\ IsEnabled(e.cfg)
    /\ ~IsRaise(Construct(e.id, e.cfg))
    /\ e.cfg.type = JStr(IF e.id \in HtmlSources THEN "html" ELSE "api")

RECURSIVE CountOk(_, _)
CountOk(vis, i) ==
    IF i > Len(vis) THEN 0
    ELSE (IF vis[i].status = "ok" THEN Len(vis[i].value.v) ELSE 0) + CountOk(vis, i + 1)

\* C1: in fetch_all_news an error raised while a platform's Source is built
\* or fetched is caught: every platform up to the loop's position has been
\* visited, an enabled registered platform that comes after a failed one has
\* still been built and fetched, and all_items holds the Items of the
\* platforms that did not fail, and only those.
C1_FailureIsolated ==
    mode = "aggregate" =>
        /\ Len(visited) = idx - 1
        /\ idx <= Len(config) + 1
        /\ \A i \in 1..Len(visited) :
              /\ visited[i].id = config[i].id
              /\ (config[i].id \in SOURCE_MAP /\ IsEnabled(config[i].cfg))
                    => visited[i].status \in {"ok", "error"}
              /\ Fetchable(config[i]) => visited[i].gets >= 1
              /\ visited[i].status = "ok" =>
                    \A k \in 1..Len(visited[i].value.v) :
                        \E m \in 1..Len(all_items) : all_items[m] = visited[i].value.v[k]
        /\ Len(all_items) = CountOk(visited, 1)

\* fetch_all_news has returned; a platform failed after its Transport call
\* ran out of attempts, and a later platform gave Items.
C1_Witness ==
    /\ Returned
    /\ \E i, j \in 1..Len(visited) :
          /\ i < j
          /\ visited[i].status = "error"
          /\ visited[i].gets = 3
          /\ visited[j].status = "ok"
          /\ visited[j].value.v # <<>>
          /\ all_items # <<>>

RECURSIVE FlattenOk(_, _)
FlattenOk(vis, n) ==
    IF n = 0 THEN <<>>
    ELSE FlattenOk(vis, n - 1)
           \o (IF vis[n].status = "ok" THEN vis[n].value.v ELSE <<>>)

\* The Items of the endpoints from the i-th on, in endpoint order: those
\* _parse_endpoint gives for each endpoint whose Transport call returned.
RECURSIVE EndpointsFrom(_, _, _, _)
EndpointsFrom(src, env, shift, i) ==
    IF i > Len(src.endpoints) THEN <<>>
    ELSE LET data == fetch(src.endpoints[i].cfg.url.v, env[i], shift).value
             got == IF IsRaise(data) THEN data
                    ELSE _parse_endpoint(src, src.endpoints[i].key, data)
         IN  (IF IsRaise(got) THEN <<>> ELSE got.v)
               \o EndpointsFrom(src, env, shift, i + 1)

\* C7: all_items is the concatenation, in the order of config["platforms"],
\* of the lists the successful fetch() calls returned, each in its own order;
\* the list of the multi-endpoint source is in endpoint order, then record
\* order.
C7_ConcatenationInOrder ==
    mode = "aggregate" =>
        /\ all_items = FlattenOk(visited, Len(visited))
        /\ \A i \in 1..Len(visited) :
              (visited[i].id = "wallstreetcn" /\ visited[i].status = "ok"
                 /\ Fetchable(config[i])) =>
                  visited[i].value.v =
                      EndpointsFrom(Construct(config[i].id, config[i].cfg),
                                    visited[i].env, exp_shift, 1)

\* Two platforms each gave Items, one of them the multi-endpoint source with
\* Items of two endpoints.
C7_Witness ==
    /\ Returned
    /\ Len(visited) >= 2
    /\ visited[1].status = "ok" /\ visited[1].value.v # <<>>
    /\ visited[2].status = "ok" /\ Len(visited[2].value.v) >= 3
    /\ visited[2].id = "wallstreetcn"
    /\ visited[1].value.v[1].title # visited[2].value.v[1].title

\* C6: a Source whose configuration says enabled=false returns the empty
\* list from fetch() without any HTTP GET, and fetch_all_news makes no GET
\* for a disabled platform and has no Item of it.
C6_DisabledNoTransport ==
    /\ (mode = "direct" /\ last.phase = "fetched" /\ IsDisabled(config[1].cfg)) =>
          /\ last.value = JList(<<>>)
          /\ last.gets = 0
    /\ mode = "aggregate" =>
          \A i \in 1..Len(visited) :
              IsDisabled(config[i].cfg) =>
                  /\ visited[i].gets = 0
                  /\ visited[i].status = "disabled"
                  /\ \A m \in 1..Len(all_items) : all_items[m].platform # config[i].id

\* fetch() was called on a disabled Source.
C6_Witness ==
    /\ mode = "direct"
    /\ last.phase = "fetched"
    /\ IsDisabled(config[1].cfg)

----------------------------------------------------------------------------
(* Properties of the Source variants (of Spec, a Source built and fetched  *)
(* on its own).                                                            *)

\* fetch() ran on an enabled Source of the kind its variant implements.
DirectRun ==
    /\ mode = "direct"
    /\ last.phase = "fetched"
    /\ Fetchable(config[1])

\* C2: when the Transport call of an endpoint of wallstreetcn is out of
\* attempts the other endpoints are still fetched: fetch() returns a list,
\* the Items of the endpoints that gave some, in endpoint order.
C2_EndpointIsolated ==
    (DirectRun /\ last.src.platform = "wallstreetcn") =>
        /\ last.value.t = "list"
        /\ last.value.v = EndpointsFrom(last.src, last.env, exp_shift, 1)
        /\ last.gets >= Len(last.src.endpoints)

\* The first endpoint ran out of attempts and a later one gave Items.
C2_Witness ==
    /\ DirectRun
    /\ last.src.platform = "wallstreetcn"
    /\ last.env[1] = Exhausted
    /\ last.value.t = "list"
    /\ last.value.v # <<>>

\* The records a response body carries for parser p, when it has the shape
\* the parser reads.
HasRecords(p, data) ==
    CASE p \in {"zhihu", "sspai"} ->
            data.t = "obj" /\ "data" \in DOMAIN data.v /\ data.v.data.t = "list"
      [] p = "thepaper" ->
            /\ data.t = "obj" /\ "data" \in DOMAIN data.v /\ data.v.data.t = "obj"
            /\ "hotNews" \in DOMAIN data.v.data.v /\ data.v.data.v.hotNews.t = "list"
      [] p \in {"live", "news", "hot"} ->
            /\ data.t = "obj" /\ "data" \in DOMAIN data.v /\ data.v.data.t = "obj"
            /\ "items" \in DOMAIN data.v.data.v /\ data.v.data.v.items.t = "list"
      [] OTHER -> data.t = "html"

RecordsOf(p, data) ==
    CASE p \in {"zhihu", "sspai"} -> data.v.data.v
      [] p = "thepaper" -> data.v.data.v.hotNews.v
      [] p \in {"live", "news", "hot"} -> data.v.data.v.items.v
      [] OTHER -> data.v

\* What the i-th Transport call of the run returned.
DataOf(i) == fetch("", last.env[i], exp_shift).value

\* Every Transport call of the run returned a response that carries records.
ValidResponses ==
    \A i \in 1..CallsOf(last.src) :
        ~IsRaise(DataOf(i)) /\ HasRecords(ParserOf(last.src, i), DataOf(i))

\* The records of recs that, taken alone, give an Item: they have a title.
Titled(p, src, recs) == {k \in 1..Len(recs) : Record(p, src, recs[k]).k = "item"}

\* The Items of the titled records from the k-th on, the others skipped.
RECURSIVE Kept(_, _, _, _)
Kept(p, src, recs, k) ==
    IF k > Len(recs) THEN <<>>
    ELSE (IF k \in Titled(p, src, recs) THEN <<Record(p, src, recs[k]).item>> ELSE <<>>)
           \o Kept(p, src, recs, k + 1)

RECURSIVE KeptFrom(_)
KeptFrom(i) ==
    IF i > CallsOf(last.src) THEN <<>>
    ELSE Kept(ParserOf(last.src, i), last.src,
              RecordsOf(ParserOf(last.src, i), DataOf(i)), 1) \o KeptFrom(i + 1)

\* C5: a malformed record in an otherwise valid response never aborts the
\* fetch of a Source: fetch() returns the Items of the well-formed records
\* before and after it.
C5_MalformedRecordSkipped ==
    (DirectRun /\ ValidResponses) =>
        /\ last.value.t = "list"
        /\ last.value.v = KeptFrom(1)

RECURSIVE TitledFrom(_)
TitledFrom(i) ==
    IF i > CallsOf(last.src) THEN 0
    ELSE Cardinality(Titled(ParserOf(last.src, i), last.src,
                            RecordsOf(ParserOf(last.src, i), DataOf(i))))
           + TitledFrom(i + 1)

\* C8: for an API-kind source and a response with at least one well-formed
\* record, fetch() returns as many Items as there are records with a
\* non-empty title; and every Item returned by a source or held by
\* fetch_all_news has a non-empty title.
C8_ItemCountIsTitledCount ==
    /\ (DirectRun /\ last.src.platform \in ApiSources /\ ValidResponses
          /\ TitledFrom(1) >= 1) =>
            /\ last.value.t = "list"
            /\ Len(last.value.v) = TitledFrom(1)
    /\ (DirectRun /\ last.value.t = "list") =>
            \A k \in 1..Len(last.value.v) : Truthy(last.value.v[k].title)
    /\ \A m \in 1..Len(all_items) : Truthy(all_items[m].title)

\* The origin of the pages of an HTML-kind source.
KnownOrigin(p) ==
    CASE p = "hupu" -> "https://bbs.hupu.com"
      [] p = "hackernews" -> "https://news.ycombinator.com/"
      [] p = "producthunt" -> "https://www.producthunt.com"
      [] p = "github" -> "https://github.com"

\* The link of a node is extracted: the node has its title element and an
\* href (for producthunt one that a[href^='/posts/'] selects).
LinkExtracted(p, node) ==
    /\ node.a /\ node.text # ""
    /\ node.href.t = "str" /\ node.href.v # ""
    /\ p = "producthunt" => StartsWith(node.href.v, "/posts/")

\* C9: for an HTML-kind source, the Item of a node with a relative href has
\* the url origin + href, and the Item of a node with an absolute href has
\* the href itself.
C9_HrefRewritten ==
    (DirectRun /\ last.src.platform \in HtmlSources /\ ValidResponses
       /\ last.value.t = "list") =>
        LET p == last.src.platform
            nodes == DataOf(1).v
        IN  \A k \in 1..Len(nodes) :
                LinkExtracted(p, nodes[k]) =>
                    \E m \in 1..Len(last.value.v) :
                        /\ last.value.v[m].title = JStr(nodes[k].text)
                        /\ last.value.v[m].url =
                              JStr(IF StartsWith(nodes[k].href.v, "http")
                                   THEN nodes[k].href.v
                                   ELSE KnownOrigin(p) \o nodes[k].href.v)

====
